---- MODULE Spec2Model ----
(***************************************************************************)
(* Multilingual retrieval of Thai-Cybersecurity-RAG (src/retrieval.py),    *)
(* the blank-question guard of the web handler (src/app.py) and the        *)
(* ingestion pipeline with its chunkers (src/rag_pipeline.py).             *)
(*                                                                         *)
(* A text is a sequence of Unicode code points (Python str).  The Thai     *)
(* block is U+0E00..U+0E7F = 3584..3711.  The texts the model ranges over  *)
(* are made of ASCII and Thai-block characters.                            *)
(***************************************************************************)
EXTENDS Integers, Sequences, FiniteSets, TLC

VARIABLES
  pc,               \* position of the running call
  query,            \* argument query / question
  original_k,       \* the caller's k (retrieval.py:206), num_docs in app.py
  k,                \* the local k, possibly adapted (retrieval.py:210)
  adaptive_k,       \* argument adaptive_k
  filter_pages,     \* argument filter_pages
  detected_lang,    \* detect_language(query), or the argument of expand
  expanded_queries, \* expand_query_with_translations(query, detected_lang)
  idx,              \* next element of expanded_queries the loop will visit
  results,          \* the list `results` as the searches extend it
  filtered,         \* `results` after the noise-filter step (line 236)
  deduped,          \* unique_results before the sort (line 248)
  unique_results,   \* unique_results after the sort (line 251)
  returned,         \* the returned list of documents (line 254)
  calls,            \* every call made to the similarity index, in order
  rag_answer,       \* what query_rag returned (app.py)
  textbook_path,    \* argument of process_all_documents (rag_pipeline.py:43)
  slides_path,      \* argument of process_all_documents (rag_pipeline.py:44)
  thai_pdf_path,    \* argument of process_all_documents (rag_pipeline.py:45)
  all_contents,     \* all_contents of _extract_all_documents (line 95)
  langchain_docs,   \* the documents handed to _chunk_all_content (line 65)
  chunks,           \* the chunks _chunk_all_content returned (line 68)
  extractor_calls,  \* every call made to an extractor, in order
  store_calls       \* every call made to Chroma.from_documents, in order

ingest_vars == <<textbook_path, slides_path, thai_pdf_path, all_contents,
                 langchain_docs, chunks, extractor_calls, store_calls>>

retrieval_vars == <<query, original_k, k, adaptive_k, filter_pages,
                    detected_lang, expanded_queries, idx, results, filtered,
                    deduped, unique_results, returned, calls, rag_answer>>

vars == <<pc, retrieval_vars, ingest_vars>>

\* no ingestion has been asked for
IngestIdle ==
  /\ textbook_path = "None"
  /\ slides_path = "None"
  /\ thai_pdf_path = "None"
  /\ all_contents = <<>>
  /\ langchain_docs = <<>>
  /\ chunks = <<>>
  /\ extractor_calls = <<>>
  /\ store_calls = <<>>

\* no retrieval has been asked for
RetrievalIdle ==
  /\ query = <<>>
  /\ original_k = 0
  /\ k = 0
  /\ adaptive_k = TRUE
  /\ filter_pages = TRUE
  /\ detected_lang = "en"
  /\ expanded_queries = <<>>
  /\ idx = 0
  /\ results = <<>>
  /\ filtered = <<>>
  /\ deduped = <<>>
  /\ unique_results = <<>>
  /\ returned = <<>>
  /\ calls = <<>>
  /\ rag_answer = "none"

----------------------------------------------------------------------------
(* Python str operations on code-point sequences *)

Min(a, b) == IF a <= b THEN a ELSE b

SPACE == 32

\* c.isspace() for the characters used: tab, LF, VT, FF, CR, space
IsSpace(c) == c \in {9, 10, 11, 12, 13, 32}

\* str.lower(), one character: only A-Z change among ASCII and Thai
LowerChar(c) == IF c >= 65 /\ c <= 90 THEN c + 32 ELSE c

Lower(s) == [i \in 1..Len(s) |-> LowerChar(s[i])]

\* c.isalnum(): ASCII digits and letters; in the Thai block the letters
\* (Lo, Lm) U+0E01-0E30, U+0E32-0E33, U+0E40-0E46 and the digits U+0E50-0E59.
\* The Thai vowel and tone marks (Mn), U+0E3F and the punctuation are not.
IsAlnum(c) ==
  \/ c >= 48 /\ c <= 57
  \/ c >= 65 /\ c <= 90
  \/ c >= 97 /\ c <= 122
  \/ c >= 3585 /\ c <= 3632
  \/ c >= 3634 /\ c <= 3635
  \/ c >= 3648 /\ c <= 3654
  \/ c >= 3664 /\ c <= 3673

\* '\u0E00' <= c <= '\u0E7F' (line 54)
IsThaiChar(c) == c >= 3584 /\ c <= 3711

\* needle in hay
Contains(needle, hay) ==
  \E i \in 0..(Len(hay) - Len(needle)) :
    SubSeq(hay, i + 1, i + Len(needle)) = needle

\* s.strip()
Strip(s) ==
  LET keep == {i \in 1..Len(s) : ~IsSpace(s[i])}
  IN IF keep = {} THEN <<>>
     ELSE LET lo == CHOOSE i \in keep : \A j \in keep : i <= j
              hi == CHOOSE i \in keep : \A j \in keep : j <= i
          IN SubSeq(s, lo, hi)

\* " ".join(parts)
RECURSIVE JoinSpace(_)
JoinSpace(parts) ==
  IF parts = <<>> THEN <<>>
  ELSE IF Len(parts) = 1 THEN parts[1]
  ELSE parts[1] \o <<SPACE>> \o JoinSpace(Tail(parts))

----------------------------------------------------------------------------
(* The glossary, retrieval.py:14-40.  A dict is the sequence of its        *)
(* <<key, value>> items in iteration (insertion) order.                    *)

THAI_SECURITY_KEYWORDS ==
  <<
    \* line 16: "web security" -> Thai term of 19 code points
    <<<<119, 101, 98, 32, 115, 101, 99, 117, 114, 105, 116, 121>>,
      <<3588, 3623, 3634, 3617, 3611, 3621, 3629, 3604, 3616, 3633, 3618, 3648, 3623, 3655, 3610, 3652, 3595, 3605, 3660>>>>,
    \* line 17: "website security" -> Thai term of 19 code points
    <<<<119, 101, 98, 115, 105, 116, 101, 32, 115, 101, 99, 117, 114, 105, 116, 121>>,
      <<3588, 3623, 3634, 3617, 3611, 3621, 3629, 3604, 3616, 3633, 3618, 3648, 3623, 3655, 3610, 3652, 3595, 3605, 3660>>>>,
    \* line 18: "security standard" -> Thai term of 18 code points
    <<<<115, 101, 99, 117, 114, 105, 116, 121, 32, 115, 116, 97, 110, 100, 97, 114, 100>>,
      <<3617, 3634, 3605, 3619, 3600, 3634, 3609, 3588, 3623, 3634, 3617, 3611, 3621, 3629, 3604, 3616, 3633, 3618>>>>,
    \* line 19: "security controls" -> Thai term of 18 code points
    <<<<115, 101, 99, 117, 114, 105, 116, 121, 32, 99, 111, 110, 116, 114, 111, 108, 115>>,
      <<3617, 3634, 3605, 3619, 3585, 3634, 3619, 3588, 3623, 3634, 3617, 3611, 3621, 3629, 3604, 3616, 3633, 3618>>>>,
    \* line 20: "controls" -> Thai term of 7 code points
    <<<<99, 111, 110, 116, 114, 111, 108, 115>>,
      <<3617, 3634, 3605, 3619, 3585, 3634, 3619>>>>,
    \* line 21: "government" -> Thai term of 6 code points
    <<<<103, 111, 118, 101, 114, 110, 109, 101, 110, 116>>,
      <<3616, 3634, 3588, 3619, 3633, 3600>>>>,
    \* line 22: "requirements" -> Thai term of 8 code points
    <<<<114, 101, 113, 117, 105, 114, 101, 109, 101, 110, 116, 115>>,
      <<3586, 3657, 3629, 3585, 3635, 3627, 3609, 3604>>>>,
    \* line 25: "access control" -> Thai term of 19 code points
    <<<<97, 99, 99, 101, 115, 115, 32, 99, 111, 110, 116, 114, 111, 108>>,
      <<3585, 3634, 3619, 3588, 3623, 3610, 3588, 3640, 3617, 3585, 3634, 3619, 3648, 3586, 3657, 3634, 3606, 3638, 3591>>>>,
    \* line 26: "authentication" -> Thai term of 14 code points
    <<<<97, 117, 116, 104, 101, 110, 116, 105, 99, 97, 116, 105, 111, 110>>,
      <<3585, 3634, 3619, 3618, 3639, 3609, 3618, 3633, 3609, 3605, 3633, 3623, 3605, 3609>>>>,
    \* line 27: "encryption" -> Thai term of 11 code points
    <<<<101, 110, 99, 114, 121, 112, 116, 105, 111, 110>>,
      <<3585, 3634, 3619, 3648, 3586, 3657, 3634, 3619, 3627, 3633, 3626>>>>,
    \* line 28: "monitoring" -> Thai term of 10 code points
    <<<<109, 111, 110, 105, 116, 111, 114, 105, 110, 103>>,
      <<3585, 3634, 3619, 3605, 3619, 3623, 3592, 3626, 3629, 3610>>>>,
    \* line 29: "incident response" -> Thai term of 19 code points
    <<<<105, 110, 99, 105, 100, 101, 110, 116, 32, 114, 101, 115, 112, 111, 110, 115, 101>>,
      <<3585, 3634, 3619, 3605, 3629, 3610, 3626, 3609, 3629, 3591, 3648, 3627, 3605, 3640, 3585, 3634, 3619, 3603, 3660>>>>,
    \* line 30: "risk management" -> Thai term of 19 code points
    <<<<114, 105, 115, 107, 32, 109, 97, 110, 97, 103, 101, 109, 101, 110, 116>>,
      <<3585, 3634, 3619, 3592, 3633, 3604, 3585, 3634, 3619, 3588, 3623, 3634, 3617, 3648, 3626, 3637, 3656, 3618, 3591>>>>,
    \* line 31: "logging" -> Thai term of 9 code points
    <<<<108, 111, 103, 103, 105, 110, 103>>,
      <<3585, 3634, 3619, 3610, 3633, 3609, 3607, 3638, 3585>>>>,
    \* line 32: "audit" -> Thai term of 10 code points
    <<<<97, 117, 100, 105, 116>>,
      <<3585, 3634, 3619, 3605, 3619, 3623, 3592, 3626, 3629, 3610>>>>,
    \* line 35: "vulnerability" -> Thai term of 8 code points
    <<<<118, 117, 108, 110, 101, 114, 97, 98, 105, 108, 105, 116, 121>>,
      <<3594, 3656, 3629, 3591, 3650, 3627, 3623, 3656>>>>,
    \* line 36: "injection" -> Thai term of 7 code points
    <<<<105, 110, 106, 101, 99, 116, 105, 111, 110>>,
      <<3585, 3634, 3619, 3649, 3607, 3619, 3585>>>>,
    \* line 37: "broken access" -> Thai term of 29 code points
    <<<<98, 114, 111, 107, 101, 110, 32, 97, 99, 99, 101, 115, 115>>,
      <<3585, 3634, 3619, 3588, 3623, 3610, 3588, 3640, 3617, 3585, 3634, 3619, 3648, 3586, 3657, 3634, 3606, 3638, 3591, 3607, 3637, 3656, 3648, 3626, 3637, 3618, 3627, 3634, 3618>>>>
  >>

\* dict lookup position: index of key in items, 0 when absent
KeyIndex(items, key) ==
  IF \E i \in 1..Len(items) : items[i][1] = key
  THEN CHOOSE i \in 1..Len(items) : items[i][1] = key
  ELSE 0

\* {v: k for k, v in items}: a key seen again keeps its position and takes
\* the later value
RECURSIVE InvertItems(_, _)
InvertItems(items, acc) ==
  IF items = <<>> THEN acc
  ELSE LET key == items[1][2]
           val == items[1][1]
           at  == KeyIndex(acc, key)
       IN InvertItems(Tail(items),
                      IF at = 0 THEN Append(acc, <<key, val>>)
                      ELSE [acc EXCEPT ![at] = <<key, val>>])

ENGLISH_SECURITY_KEYWORDS == InvertItems(THAI_SECURITY_KEYWORDS, <<>>)

----------------------------------------------------------------------------
(* detect_language, retrieval.py:43-61 *)

CountThai(text) == Cardinality({i \in 1..Len(text) : IsThaiChar(text[i])})

CountAlnum(text) == Cardinality({i \in 1..Len(text) : IsAlnum(text[i])})

\* lines 54-60 with thai_chars counted among the alphanumeric characters only
detect_language_among_alnum(text) ==
  LET thai_chars  == Cardinality({i \in 1..Len(text) :
                        IsThaiChar(text[i]) /\ IsAlnum(text[i])})
      total_chars == CountAlnum(text)
  IN IF total_chars = 0 THEN "en"
     ELSE IF 10 * thai_chars > 3 * total_chars THEN "th" ELSE "en"

\* thai_chars / total_chars > 0.3, as the comparison of integers
\* 10 * thai_chars > 3 * total_chars (exact for these lengths)
detect_language(text) ==
  LET thai_chars  == CountThai(text)
      total_chars == CountAlnum(text)
  IN IF total_chars = 0 THEN "en"
     ELSE IF 10 * thai_chars > 3 * total_chars THEN "th" ELSE "en"

----------------------------------------------------------------------------
(* expand_query_with_translations, retrieval.py:64-106 *)

\* lines 79-82 with the comparison made on the text as typed
RECURSIVE AppendThaiTermsCaseSensitive(_, _, _)
AppendThaiTermsCaseSensitive(items, q, expanded_query) ==
  IF items = <<>> THEN expanded_query
  ELSE AppendThaiTermsCaseSensitive(Tail(items), q,
         IF Contains(items[1][1], q)
         THEN expanded_query \o <<SPACE>> \o items[1][2]
         ELSE expanded_query)

\* lines 79-82: expanded_query grows by " " + th_term per matching en_term
RECURSIVE AppendThaiTerms(_, _, _)
AppendThaiTerms(items, q, expanded_query) ==
  IF items = <<>> THEN expanded_query
  ELSE AppendThaiTerms(Tail(items), q,
         IF Contains(Lower(items[1][1]), Lower(q))
         THEN expanded_query \o <<SPACE>> \o items[1][2]
         ELSE expanded_query)

\* lines 88-91: thai_only collects th_term per matching en_term
RECURSIVE ThaiOnly(_, _, _)
ThaiOnly(items, q, thai_only) ==
  IF items = <<>> THEN thai_only
  ELSE ThaiOnly(Tail(items), q,
         IF Contains(Lower(items[1][1]), Lower(q))
         THEN Append(thai_only, items[1][2])
         ELSE thai_only)

\* lines 98-101: expanded_query grows by " " + en_term per th_term in query
RECURSIVE AppendEnglishTerms(_, _, _)
AppendEnglishTerms(items, q, expanded_query) ==
  IF items = <<>> THEN expanded_query
  ELSE AppendEnglishTerms(Tail(items), q,
         IF Contains(items[1][1], q)
         THEN expanded_query \o <<SPACE>> \o items[1][2]
         ELSE expanded_query)

\* lines 84-85 without the comparison with the query
ExpandEnglishUnchecked(q) ==
  LET expanded_query == AppendThaiTerms(THAI_SECURITY_KEYWORDS, q, q)
      thai_only      == ThaiOnly(THAI_SECURITY_KEYWORDS, q, <<>>)
      q1 == <<q, expanded_query>>
  IN IF thai_only # <<>> THEN Append(q1, JoinSpace(thai_only)) ELSE q1

ExpandEnglish(q) ==
  LET expanded_query == AppendThaiTerms(THAI_SECURITY_KEYWORDS, q, q)
      thai_only      == ThaiOnly(THAI_SECURITY_KEYWORDS, q, <<>>)
      q1 == IF expanded_query # q THEN <<q, expanded_query>> ELSE <<q>>
  IN IF thai_only # <<>> THEN Append(q1, JoinSpace(thai_only)) ELSE q1

\* lines 96-104 followed by a pure-English variant, as lines 87-92 do for
\* English queries
ExpandThaiWithEnglishOnly(q) ==
  LET expanded_query == AppendEnglishTerms(ENGLISH_SECURITY_KEYWORDS, q, q)
  IN IF expanded_query # q
     THEN <<q, expanded_query, SubSeq(expanded_query, Len(q) + 2, Len(expanded_query))>>
     ELSE <<q>>

ExpandThai(q) ==
  LET expanded_query == AppendEnglishTerms(ENGLISH_SECURITY_KEYWORDS, q, q)
  IN IF expanded_query # q THEN <<q, expanded_query>> ELSE <<q>>

expand_query_with_translations(q, lang) ==
  IF lang = "en" THEN ExpandEnglish(q)
  ELSE IF lang = "th" THEN ExpandThai(q)
  ELSE <<q>>

----------------------------------------------------------------------------
(* is_thai_related_query, retrieval.py:109-125 *)

thai_indicators ==
  <<
    <<116, 104, 97, 105, 108, 97, 110, 100>>,  \* "thailand"
    <<116, 104, 97, 105>>,  \* "thai"
    <<3652, 3607, 3618>>,  \* Thai word for "Thai"
    <<3616, 3634, 3588, 3619, 3633, 3600>>,  \* Thai word for "government sector"
    <<3617, 3634, 3605, 3619, 3600, 3634, 3609>>,  \* Thai word for "standard"
    <<3614, 46, 3624, 46>>,  \* Thai abbreviation of "Buddhist era"
    <<110, 99, 115, 97>>,  \* "ncsa"
    <<103, 111, 118, 101, 114, 110, 109, 101, 110, 116>>  \* "government"
  >>

is_thai_related_query(q) ==
  \E i \in 1..Len(thai_indicators) : Contains(thai_indicators[i], Lower(q))

----------------------------------------------------------------------------
(* The indexed corpus and the similarity index (external).  A document is  *)
(* identified by its position in PageContent; two documents may share      *)
(* their first 100 characters.                                             *)

FingerprintLen == 100

\* the index returns at most this many hits per search
MaxHits == 1

LongText == [i \in 1..FingerprintLen |-> 97]

PageContent ==
  <<
    \* 100 x "a" then " body": no marker
    LongText \o <<32, 98, 111, 100, 121>>,
    \* 100 x "a" then " References": a marker after the first 100 characters
    LongText \o <<32, 82, 101, 102, 101, 114, 101, 110, 99, 101, 115>>,
    \* "Table Of Contents"
    <<84, 97, 98, 108, 101, 32, 79, 102, 32, 67, 111, 110, 116, 101, 110, 116, 115>>,
    \* "encryption basics"
    <<101, 110, 99, 114, 121, 112, 116, 105, 111, 110, 32, 98, 97, 115, 105, 99, 115>>
  >>

Docs == 1..Len(PageContent)

\* distances; lower is nearer
Scores == {1, 2}

Hit == [doc : Docs, score : Scores]

\* sequences of at most n hits
RECURSIVE HitLists(_)
HitLists(n) ==
  IF n = 0 THEN {<<>>}
  ELSE LET shorter == HitLists(n - 1)
       IN shorter \cup
          {Append(l, h) : l \in {x \in shorter : Len(x) = n - 1}, h \in Hit}

\* an answer of the index names no document twice and is in ascending
\* order of distance
NoRepeat(l) == \A i, j \in 1..Len(l) : l[i].doc = l[j].doc => i = j

Ascending(l) == \A i, j \in 1..Len(l) : i < j => l[i].score <= l[j].score

IsAnswer(l) == NoRepeat(l) /\ Ascending(l)

\* the answers of at most n hits, n in 0..MaxHits
AnswersOfLength == [n \in 0..MaxHits |-> {l \in HitLists(n) : IsAnswer(l)}]

\* what similarity_search_with_score(q, k = n) may return: at most n hits
SearchAnswers(n) == AnswersOfLength[Min(n, MaxHits)]

----------------------------------------------------------------------------
(* filter_irrelevant_pages, retrieval.py:128-167 *)

irrelevant_indicators ==
  <<
    <<3610, 3619, 3619, 3603, 3634, 3609, 3640, 3585, 3619, 3617>>,  \* Thai word for "bibliography"
    <<98, 105, 98, 108, 105, 111, 103, 114, 97, 112, 104, 121>>,  \* "bibliography"
    <<114, 101, 102, 101, 114, 101, 110, 99, 101, 115>>,  \* "references"
    <<3626, 3634, 3619, 3610, 3633, 3597>>,  \* Thai word for "table of contents"
    <<116, 97, 98, 108, 101, 32, 111, 102, 32, 99, 111, 110, 116, 101, 110, 116, 115>>,  \* "table of contents"
    <<3629, 3657, 3634, 3591, 3629, 3636, 3591>>  \* Thai word for "references"
  >>

\* the marker test without .lower()
is_irrelevant_case_sensitive(page_content) ==
  \E i \in 1..Len(irrelevant_indicators) :
    Contains(irrelevant_indicators[i], page_content)

\* lines 150-156
is_irrelevant(page_content) ==
  LET content_lower == Lower(page_content)
  IN \E i \in 1..Len(irrelevant_indicators) :
       Contains(irrelevant_indicators[i], content_lower)

\* the documents of the corpus that line 153 finds irrelevant
IrrelevantDocs == {d \in Docs : is_irrelevant(PageContent[d])}

\* lines 148-160
RECURSIVE KeepRelevant(_)
KeepRelevant(rs) ==
  IF rs = <<>> THEN <<>>
  ELSE IF rs[1].doc \notin IrrelevantDocs
       THEN <<rs[1]>> \o KeepRelevant(Tail(rs))
       ELSE KeepRelevant(Tail(rs))

\* the filter without the fallback of lines 163-165
filter_without_fallback(results_with_scores) == KeepRelevant(results_with_scores)

filter_irrelevant_pages(results_with_scores) ==
  LET kept == KeepRelevant(results_with_scores)
  IN IF kept = <<>> /\ results_with_scores # <<>>
     THEN results_with_scores
     ELSE kept

----------------------------------------------------------------------------
(* Deduplicate, sort and truncate, retrieval.py:239-254 *)

\* page_content[:100]
Fingerprint(page_content) ==
  SubSeq(page_content, 1, Min(FingerprintLen, Len(page_content)))

\* the fingerprint of each document of the corpus
FingerprintOf == [d \in Docs |-> Fingerprint(PageContent[d])]

\* a deduplication that keeps, per fingerprint, the lowest score seen
RECURSIVE DedupKeepBest(_, _, _)
DedupKeepBest(rs, seen_content, unique) ==
  IF rs = <<>> THEN unique
  ELSE LET fingerprint == FingerprintOf[rs[1].doc]
           at == IF \E i \in 1..Len(unique) : FingerprintOf[unique[i].doc] = fingerprint
                 THEN CHOOSE i \in 1..Len(unique) : FingerprintOf[unique[i].doc] = fingerprint
                 ELSE 0
       IN IF at = 0
          THEN DedupKeepBest(Tail(rs), seen_content \cup {fingerprint}, Append(unique, rs[1]))
          ELSE DedupKeepBest(Tail(rs), seen_content,
                 IF rs[1].score < unique[at].score
                 THEN [unique EXCEPT ![at] = rs[1]] ELSE unique)

\* lines 240-248
RECURSIVE Dedup(_, _, _)
Dedup(rs, seen_content, unique) ==
  IF rs = <<>> THEN unique
  ELSE LET fingerprint == FingerprintOf[rs[1].doc]
       IN IF fingerprint \notin seen_content
          THEN Dedup(Tail(rs), seen_content \cup {fingerprint}, Append(unique, rs[1]))
          ELSE Dedup(Tail(rs), seen_content, unique)

\* an insertion that puts x before the elements of equal score
RECURSIVE InsertBeforeEqual(_, _)
InsertBeforeEqual(sorted, x) ==
  IF sorted = <<>> THEN <<x>>
  ELSE IF sorted[1].score < x.score
       THEN <<sorted[1]>> \o InsertBeforeEqual(Tail(sorted), x)
       ELSE <<x>> \o sorted

\* insert x after every element whose score is <= x.score
RECURSIVE InsertByScore(_, _)
InsertByScore(sorted, x) ==
  IF sorted = <<>> THEN <<x>>
  ELSE IF sorted[1].score <= x.score
       THEN <<sorted[1]>> \o InsertByScore(Tail(sorted), x)
       ELSE <<x>> \o sorted

\* the sort left out
SortOmitted(rs, sorted) == rs

\* list.sort(key = lambda x: x[1]): ascending and stable
RECURSIVE SortByScore(_, _)
SortByScore(rs, sorted) ==
  IF rs = <<>> THEN sorted
  ELSE SortByScore(Tail(rs), InsertByScore(sorted, rs[1]))

\* unique_results[:original_k] for original_k >= 0
TakeFirst(rs, n) == SubSeq(rs, 1, Min(n, Len(rs)))

\* the slice bound of line 254 is the caller's k, not the adapted k
ReturnCountAdapted(requested, adapted) == adapted

ReturnCount(requested, adapted) == requested

DocsOf(rs) == [i \in 1..Len(rs) |-> rs[i].doc]

----------------------------------------------------------------------------
(* Inputs *)

\* "web security": English, a glossary term, no Thai-content marker
Q_web_security == <<119, 101, 98, 32, 115, 101, 99, 117, 114, 105, 116, 121>>
\* "Thailand": English with a Thai-content marker, no glossary term
Q_thailand == <<84, 104, 97, 105, 108, 97, 110, 100>>
\* "MITRE": English, neither
Q_mitre == <<77, 73, 84, 82, 69>>
\* the Thai word for "government sector" (a glossary term and a marker)
Q_thai_government == <<3616, 3634, 3588, 3619, 3633, 3600>>
\* "" and "  "
Q_empty == <<>>
Q_blank == <<32, 32>>

Queries == {Q_web_security, Q_thailand, Q_mitre, Q_thai_government, Q_empty, Q_blank}

\* the values of k a caller asks for: none, fewer than the searches find,
\* and more than the cap of line 210
RequestedK == {0, 1, 16}

\* one call to the index: the function, its arguments, whether it raised,
\* and the hits it answered (none when it raised)
Call(fn, q, n, raised, answer) ==
  [fn |-> fn, query |-> q, k |-> n, raised |-> raised, answer |-> answer]

----------------------------------------------------------------------------
(* retrieve_documents_multilingual, retrieval.py:185-254 *)

Init ==
  /\ pc = "idle"
  /\ RetrievalIdle
  /\ IngestIdle

\* the increase without the cap
AdaptKUncapped(n) == n + 5

\* line 210
AdaptK(n) == Min(n + 5, 15)

\* lines 205-211: the call is entered, the language detected, k adapted
Begin(q, n, a, f) ==
  /\ pc = "idle"
  /\ pc' = "search_original"
  /\ query' = q
  /\ original_k' = n
  /\ adaptive_k' = a
  /\ filter_pages' = f
  /\ detected_lang' = detect_language(q)
  /\ k' = IF a /\ (detect_language(q) = "th" \/ is_thai_related_query(q))
          THEN AdaptK(n) ELSE n
  /\ UNCHANGED <<expanded_queries, idx, results, filtered, deduped,
                 unique_results, returned, calls, rag_answer>>
  /\ UNCHANGED ingest_vars

\* lines 214-218: the search of the original query answers
SearchOriginalOk(r) ==
  /\ pc = "search_original"
  /\ calls' = Append(calls, Call("similarity_search_with_score", query, k,
                                 FALSE, r))
  /\ results' = r
  /\ expanded_queries' = expand_query_with_translations(query, detected_lang)
  /\ idx' = 2
  /\ pc' = "expanding"
  /\ UNCHANGED <<query, original_k, k, adaptive_k, filter_pages, detected_lang,
                 filtered, deduped, unique_results, returned, rag_answer>>
  /\ UNCHANGED ingest_vars

\* line 214 raises: it is outside the try, the exception leaves the function
SearchOriginalFail ==
  /\ pc = "search_original"
  /\ calls' = Append(calls, Call("similarity_search_with_score", query, k,
                                 TRUE, <<>>))
  /\ pc' = "raised"
  /\ UNCHANGED <<query, original_k, k, adaptive_k, filter_pages, detected_lang,
                 expanded_queries, idx, results, filtered, deduped,
                 unique_results, returned, rag_answer>>
  /\ UNCHANGED ingest_vars

\* line 222
IsSearched(expanded_query) == Strip(expanded_query) # Strip(query)

\* lines 221-229 with the answer put in front of the aggregate
SearchExpandedOkPrepend(r) ==
  /\ pc = "expanding"
  /\ idx <= Len(expanded_queries)
  /\ IF IsSearched(expanded_queries[idx])
     THEN /\ calls' = Append(calls, Call("similarity_search_with_score",
                                          expanded_queries[idx], k, FALSE, r))
          /\ results' = r \o results
     ELSE /\ r = <<>>
          /\ UNCHANGED <<calls, results>>
  /\ idx' = idx + 1
  /\ UNCHANGED <<pc, query, original_k, k, adaptive_k, filter_pages,
                 detected_lang, expanded_queries, filtered, deduped,
                 unique_results, returned, rag_answer>>
  /\ UNCHANGED ingest_vars

\* lines 221-229: one iteration of the loop whose search answers
SearchExpandedOk(r) ==
  /\ pc = "expanding"
  /\ idx <= Len(expanded_queries)
  /\ IF IsSearched(expanded_queries[idx])
     THEN /\ calls' = Append(calls, Call("similarity_search_with_score",
                                          expanded_queries[idx], k, FALSE, r))
          /\ results' = results \o r
     ELSE /\ r = <<>>
          /\ UNCHANGED <<calls, results>>
  /\ idx' = idx + 1
  /\ UNCHANGED <<pc, query, original_k, k, adaptive_k, filter_pages,
                 detected_lang, expanded_queries, filtered, deduped,
                 unique_results, returned, rag_answer>>
  /\ UNCHANGED ingest_vars

\* the failure of an expanded search left uncaught
SearchExpandedFailUncaught ==
  /\ pc = "expanding"
  /\ idx <= Len(expanded_queries)
  /\ IsSearched(expanded_queries[idx])
  /\ calls' = Append(calls, Call("similarity_search_with_score",
                                 expanded_queries[idx], k, TRUE, <<>>))
  /\ pc' = "raised"
  /\ UNCHANGED <<idx, query, original_k, k, adaptive_k, filter_pages,
                 detected_lang, expanded_queries, results, filtered, deduped,
                 unique_results, returned, rag_answer>>
  /\ UNCHANGED ingest_vars

\* lines 223-232: one iteration whose search raises; caught, the loop goes on
SearchExpandedFail ==
  /\ pc = "expanding"
  /\ idx <= Len(expanded_queries)
  /\ IsSearched(expanded_queries[idx])
  /\ calls' = Append(calls, Call("similarity_search_with_score",
                                 expanded_queries[idx], k, TRUE, <<>>))
  /\ idx' = idx + 1
  /\ UNCHANGED <<pc, query, original_k, k, adaptive_k, filter_pages,
                 detected_lang, expanded_queries, results, filtered, deduped,
                 unique_results, returned, rag_answer>>
  /\ UNCHANGED ingest_vars

\* lines 234-254 with the deduplication ahead of the filter
FinishDedupFirst ==
  /\ pc = "expanding"
  /\ idx > Len(expanded_queries)
  /\ LET u == Dedup(results, {}, <<>>)
         f == IF filter_pages THEN filter_irrelevant_pages(u) ELSE u
         s == SortByScore(f, <<>>)
     IN /\ filtered' = f
        /\ deduped' = u
        /\ unique_results' = s
        /\ returned' = DocsOf(TakeFirst(s, ReturnCount(original_k, k)))
  /\ pc' = "returned"
  /\ UNCHANGED <<query, original_k, k, adaptive_k, filter_pages, detected_lang,
                 expanded_queries, idx, results, calls, rag_answer>>
  /\ UNCHANGED ingest_vars

\* lines 234-254: filter, deduplicate, sort, truncate, return
Finish ==
  /\ pc = "expanding"
  /\ idx > Len(expanded_queries)
  /\ LET f == IF filter_pages THEN filter_irrelevant_pages(results) ELSE results
         u == Dedup(f, {}, <<>>)
         s == SortByScore(u, <<>>)
     IN /\ filtered' = f
        /\ deduped' = u
        /\ unique_results' = s
        /\ returned' = DocsOf(TakeFirst(s, ReturnCount(original_k, k)))
  /\ pc' = "returned"
  /\ UNCHANGED <<query, original_k, k, adaptive_k, filter_pages, detected_lang,
                 expanded_queries, idx, results, calls, rag_answer>>
  /\ UNCHANGED ingest_vars

----------------------------------------------------------------------------
(* query_rag, app.py:14-67 *)

SearchOutcomes == {"raises", "empty", "found_answered", "found_llm_raises"}

\* the guard of line 28 without .strip()
query_rag_without_strip(question, num_docs, outcome) ==
  /\ pc = "idle"
  /\ query' = question
  /\ original_k' = num_docs
  /\ pc' = "rag_returned"
  /\ IF question = <<>>
     THEN /\ rag_answer' = "Please enter a question."
          /\ UNCHANGED calls
     ELSE /\ calls' = Append(calls, Call("similarity_search", question, num_docs,
                                         outcome = "raises", <<>>))
          /\ rag_answer' = CASE outcome = "raises" -> "An error occurred"
                             [] outcome = "empty" -> "No relevant documents found"
                             [] outcome = "found_answered" -> "response"
                             [] OTHER -> "An error occurred"
  /\ UNCHANGED <<k, adaptive_k, filter_pages, detected_lang, expanded_queries,
                 idx, results, filtered, deduped, unique_results, returned>>
  /\ UNCHANGED ingest_vars

query_rag(question, num_docs, outcome) ==
  /\ pc = "idle"
  /\ query' = question
  /\ original_k' = num_docs
  /\ pc' = "rag_returned"
  /\ IF Strip(question) = <<>>
     THEN \* lines 28-29
          /\ rag_answer' = "Please enter a question."
          /\ UNCHANGED calls
     ELSE \* lines 31-67
          /\ calls' = Append(calls, Call("similarity_search", question, num_docs,
                                         outcome = "raises", <<>>))
          /\ rag_answer' = CASE outcome = "raises" -> "An error occurred"
                             [] outcome = "empty" -> "No relevant documents found"
                             [] outcome = "found_answered" -> "response"
                             [] OTHER -> "An error occurred"
  /\ UNCHANGED <<k, adaptive_k, filter_pages, detected_lang, expanded_queries,
                 idx, results, filtered, deduped, unique_results, returned>>
  /\ UNCHANGED ingest_vars

Next ==
  \/ \E q \in Queries, n \in RequestedK, a \in BOOLEAN, f \in BOOLEAN :
       Begin(q, n, a, f)
  \/ \E r \in SearchAnswers(k) : SearchOriginalOk(r)
  \/ SearchOriginalFail
  \/ \E r \in SearchAnswers(k) : SearchExpandedOk(r)
  \/ SearchExpandedFail
  \/ Finish
  \/ \E q \in Queries, n \in RequestedK, o \in SearchOutcomes :
       query_rag(q, n, o)

Spec == Init /\ [][Next]_vars

----------------------------------------------------------------------------
(* expand_query_with_translations called on its own, with any language     *)
(* argument.  A query is the concatenation of at most MaxPieces pieces.    *)

MaxPieces == 2

QueryPieces ==
  {
    \* "web security"
    <<119, 101, 98, 32, 115, 101, 99, 117, 114, 105, 116, 121>>,
    \* "Security Controls"
    <<83, 101, 99, 117, 114, 105, 116, 121, 32, 67, 111, 110, 116, 114, 111, 108, 115>>,
    \* "audit"
    <<97, 117, 100, 105, 116>>,
    \* "monitoring"
    <<109, 111, 110, 105, 116, 111, 114, 105, 110, 103>>,
    \* "MITRE"
    <<77, 73, 84, 82, 69>>,
    \* " "
    <<32>>,
    \* Thai for "government" (line 21)
    <<3616, 3634, 3588, 3619, 3633, 3600>>,
    \* Thai for "monitoring" and "audit" (lines 28, 32)
    <<3585, 3634, 3619, 3605, 3619, 3623, 3592, 3626, 3629, 3610>>,
    \* Thai for "security controls" (line 19)
    <<3617, 3634, 3605, 3619, 3585, 3634, 3619, 3588, 3623, 3634, 3617, 3611, 3621, 3629, 3604, 3616, 3633, 3618>>,
    \* Thai for "web security" (lines 16, 17)
    <<3588, 3623, 3634, 3617, 3611, 3621, 3629, 3604, 3616, 3633, 3618, 3648, 3623, 3655, 3610, 3652, 3595, 3605, 3660>>,
    \* Thai for "here": two consonants, each under a vowel mark and a tone
    \* mark (U+0E17 U+0E35 U+0E48 U+0E19 U+0E35 U+0E48)
    <<3607, 3637, 3656, 3609, 3637, 3656>>
  }

RECURSIVE QueriesOf(_)
QueriesOf(n) ==
  IF n = 0 THEN {<<>>}
  ELSE LET shorter == QueriesOf(n - 1)
       IN shorter \cup {q \o p : q \in shorter, p \in QueryPieces}

ExpandQueries == QueriesOf(MaxPieces)

Languages == {"en", "th", "fr"}

InitExpand ==
  /\ pc = "expand_idle"
  /\ RetrievalIdle
  /\ IngestIdle

\* expand_query_with_translations(q, lang) is called and returns
ExpandCall(q, lang) ==
  /\ pc = "expand_idle"
  /\ pc' = "expanded"
  /\ query' = q
  /\ detected_lang' = lang
  /\ expanded_queries' = expand_query_with_translations(q, lang)
  /\ UNCHANGED <<original_k, k, adaptive_k, filter_pages, idx, results,
                 filtered, deduped, unique_results, returned, calls, rag_answer>>
  /\ UNCHANGED ingest_vars

\* detect_language(q) is called alone and returns
DetectCall(q) ==
  /\ pc = "expand_idle"
  /\ pc' = "detected"
  /\ query' = q
  /\ detected_lang' = detect_language(q)
  /\ UNCHANGED <<original_k, k, adaptive_k, filter_pages, expanded_queries,
                 idx, results, filtered, deduped, unique_results, returned,
                 calls, rag_answer>>
  /\ UNCHANGED ingest_vars

NextExpand ==
  \/ \E q \in ExpandQueries, lang \in Languages : ExpandCall(q, lang)
  \/ \E q \in ExpandQueries : DetectCall(q)

SpecExpand == InitExpand /\ [][NextExpand]_vars

----------------------------------------------------------------------------
(* Properties of retrieve_documents_multilingual.  They are stated on the  *)
(* raw aggregate (results), on the list that reaches deduplication         *)
(* (filtered), on the deduplicated list before the sort (deduped) and on   *)
(* the returned list, with definitions of their own for the fingerprint    *)
(* and the noise markers.                                                  *)

Range(s) == {s[i] : i \in DOMAIN s}

\* the first 100 characters of the text of each document
TextPrefix ==
  [d \in Docs |-> SubSeq(PageContent[d], 1, Min(100, Len(PageContent[d])))]

\* the documents whose lowercased text contains a noise marker
MarkedDocs ==
  {d \in Docs : \E m \in Range(irrelevant_indicators) :
                  Contains(m, Lower(PageContent[d]))}

Unmarked(h) == h.doc \notin MarkedDocs

\* positions of l that hold the first passage of their fingerprint
FirstPositions(l) ==
  {i \in 1..Len(l) :
     \A j \in 1..(i - 1) : TextPrefix[l[j].doc] # TextPrefix[l[i].doc]}

\* the n-th smallest element of a set of positions
NthOf(P, n) == CHOOSE p \in P : Cardinality({q \in P : q <= p}) = n

\* the passages of l at the positions P, in the order of l
PassagesAt(l, P) == [n \in 1..Cardinality(P) |-> l[NthOf(P, n)]]

\* the passage of l that holds document d
EntryOf(l, d) == l[CHOOSE i \in 1..Len(l) : l[i].doc = d]

PositionOf(l, d) == CHOOSE i \in 1..Len(l) : l[i].doc = d

\* C1: retrieve returns at most the caller's k documents (the k asked for,
\* not the adapted k of the searches), and no two returned documents have
\* the same first 100 characters.
C1_AtMostRequestedDistinct ==
  pc = "returned" =>
    /\ Len(returned) <= original_k
    /\ \A i, j \in 1..Len(returned) :
         i # j => TextPrefix[returned[i]] # TextPrefix[returned[j]]

\* the searches used an adapted k larger than the caller's, more unique
\* passages than the caller's k were found, and exactly k were returned
C1_Witness ==
  /\ pc = "returned"
  /\ original_k >= 1
  /\ k > original_k
  /\ Len(deduped) > original_k
  /\ Len(returned) = original_k

\* C2 as stated: every surviving passage is the first passage of its
\* fingerprint in the raw aggregate.
C2_FirstOfRawAggregate ==
  pc = "returned" =>
    \A u \in 1..Len(deduped) :
      LET first == CHOOSE i \in FirstPositions(results) :
                     TextPrefix[results[i].doc] = TextPrefix[deduped[u].doc]
      IN deduped[u] = results[first]

\* C2 amended: deduplication keeps, of the passages that reach it (the raw
\* aggregate when filtering is off, the output of the noise filter when it
\* is on), exactly the first passage of each fingerprint, with its own
\* score, in their order, and drops every later one whatever its score.
C2_FirstOfDedupInput ==
  pc = "returned" =>
    /\ deduped = PassagesAt(filtered, FirstPositions(filtered))
    /\ ~filter_pages => filtered = results

\* a later passage of the same fingerprint has a lower score and is dropped
C2_Witness ==
  /\ pc = "returned"
  /\ \E i, j \in 1..Len(filtered) :
       /\ i < j
       /\ TextPrefix[filtered[i].doc] = TextPrefix[filtered[j].doc]
       /\ filtered[j].score < filtered[i].score
       /\ i \in FirstPositions(filtered)
       /\ \E u \in 1..Len(deduped) : deduped[u] = filtered[i]
       /\ Len(deduped) < Len(filtered)

\* C3: the returned documents are in non-decreasing order of the score they
\* have after deduplication, and documents of equal score keep the order
\* they had after deduplication.
C3_SortedStable ==
  pc = "returned" =>
    /\ \A i \in 1..Len(returned) :
         \E u \in 1..Len(deduped) : deduped[u].doc = returned[i]
    /\ \A i, j \in 1..Len(returned) :
         i < j =>
           LET si == EntryOf(deduped, returned[i]).score
               sj == EntryOf(deduped, returned[j]).score
           IN /\ si <= sj
              /\ si = sj => PositionOf(deduped, returned[i])
                              < PositionOf(deduped, returned[j])

\* three documents returned, two of equal score, in an order that differs
\* from the order after deduplication
C3_Witness ==
  /\ pc = "returned"
  /\ Len(returned) = 3
  /\ returned # DocsOf(deduped)
  /\ \E i, j \in 1..Len(returned) :
       /\ i < j
       /\ EntryOf(deduped, returned[i]).score = EntryOf(deduped, returned[j]).score

\* positions of the raw aggregate that the noise filter lets through
KeptPositions ==
  IF filter_pages /\ \E i \in 1..Len(results) : Unmarked(results[i])
  THEN {i \in 1..Len(results) : Unmarked(results[i])}
  ELSE 1..Len(results)

\* positions left after noise filtering and first-wins deduplication
SurvivorPositions ==
  {i \in KeptPositions :
     \A j \in KeptPositions :
       j < i => TextPrefix[results[j].doc] # TextPrefix[results[i].doc]}

SurvivorOf(d) == results[CHOOSE p \in SurvivorPositions : results[p].doc = d]

\* C4: retrieve returns exactly min(k, U) documents, each one of the U
\* survivors of noise filtering and first-wins deduplication of the raw
\* aggregate, none of them scored higher than a survivor left out, in
\* ascending order of score.
C4_LowestScoredSurvivors ==
  pc = "returned" =>
    /\ Len(returned) = Min(original_k, Cardinality(SurvivorPositions))
    /\ \A i \in 1..Len(returned) :
         \E p \in SurvivorPositions : results[p].doc = returned[i]
    /\ \A i, j \in 1..Len(returned) : i # j => returned[i] # returned[j]
    /\ \A i \in 1..Len(returned) :
         \A p \in SurvivorPositions :
           results[p].doc \notin Range(returned) =>
             SurvivorOf(returned[i]).score <= results[p].score
    /\ \A i, j \in 1..Len(returned) :
         i < j => SurvivorOf(returned[i]).score <= SurvivorOf(returned[j]).score

\* the raw aggregate collapses to fewer survivors, more than k of them, one
\* of those left out scored strictly higher than a returned one
C4_Witness ==
  /\ pc = "returned"
  /\ original_k >= 1
  /\ Cardinality(SurvivorPositions) < Len(results)
  /\ Cardinality(SurvivorPositions) > original_k
  /\ Len(returned) = original_k
  /\ \E p \in SurvivorPositions :
       /\ results[p].doc \notin Range(returned)
       /\ p < PositionOf(results, returned[1])
       /\ results[p].score > SurvivorOf(returned[1]).score

C6_NeverEmptiedByFilter ==
  pc = "returned" /\ original_k >= 1 /\ results # <<>> => returned # <<>>

\* filtering is on, every passage of the raw aggregate has a marker, and
\* documents are returned
C6_Witness ==
  /\ pc = "returned"
  /\ filter_pages
  /\ original_k >= 1
  /\ results # <<>>
  /\ \A i \in 1..Len(results) : ~Unmarked(results[i])
  /\ returned # <<>>

\* the positions of the running call of retrieve_documents_multilingual
\* after its first search
AfterFirstSearch == {"expanding", "returned", "raised"}

\* the hits of the calls that did not raise, in call order
RECURSIVE AnswersInOrder(_)
AnswersInOrder(cs) ==
  IF cs = <<>> THEN <<>>
  ELSE (IF cs[1].raised THEN <<>> ELSE cs[1].answer) \o AnswersInOrder(Tail(cs))

IsBlank(q) == \A i \in 1..Len(q) : IsSpace(q[i])

\* C8 as stated: retrieve makes no call to the index for a blank query.
C8_BlankRejectedByRetrieve ==
  pc \in AfterFirstSearch /\ IsBlank(query) => calls = <<>>

\* C8 amended: a blank question is rejected by query_rag (app.py) before any
\* call to the index; retrieve (retrieve_documents_multilingual) does not
\* validate its query and searches the index for it, blank or not.
C8_BlankRejectedByQueryRag ==
  /\ pc = "rag_returned" /\ IsBlank(query) =>
       /\ calls = <<>>
       /\ rag_answer = "Please enter a question."
  /\ pc = "rag_returned" /\ ~IsBlank(query) =>
       /\ Len(calls) = 1
       /\ calls[1].query = query
       /\ rag_answer # "Please enter a question."
  /\ pc \in AfterFirstSearch =>
       /\ Len(calls) >= 1
       /\ calls[1].query = query

\* query_rag was given two spaces and returned without a call to the index
C8_Witness ==
  /\ pc = "rag_returned"
  /\ query = Q_blank
  /\ calls = <<>>
  /\ rag_answer = "Please enter a question."

\* the count every search of the running call is expected to request
\* the queries detected as Thai or holding a Thai-content marker
ThaiOrThaiRelated ==
  {q \in Queries : detect_language(q) = "th" \/ is_thai_related_query(q)}

ExpectedSearchK ==
  IF adaptive_k /\ query \in ThaiOrThaiRelated
  THEN Min(original_k + 5, 15)
  ELSE original_k

\* C9: every search of one retrieve call requests the same count,
\* min(k + 5, 15) when adaptive_k is on and the query is detected as Thai or
\* holds a Thai-content marker ("Thailand" is one, in an English query), and
\* k otherwise; the returned list is never longer than k.
C9_UniformSearchCount ==
  pc \in AfterFirstSearch =>
    /\ \A i \in 1..Len(calls) : calls[i].k = ExpectedSearchK
    /\ query = Q_thailand =>
         /\ detected_lang = "en"
         /\ adaptive_k => \A i \in 1..Len(calls) : calls[i].k = Min(original_k + 5, 15)
         /\ ~adaptive_k => \A i \in 1..Len(calls) : calls[i].k = original_k
    /\ query \in {Q_mitre, Q_web_security}
         => \A i \in 1..Len(calls) : calls[i].k = original_k
    /\ pc = "returned" => Len(returned) <= original_k

\* a Thai query with k = 16: both of its searches asked for 15, the cap,
\* and the call returned
C9_Witness ==
  /\ pc = "returned"
  /\ query = Q_thai_government
  /\ detected_lang = "th"
  /\ adaptive_k
  /\ original_k = 16
  /\ Len(calls) = 2
  /\ calls[1].k = 15
  /\ calls[2].k = 15
  /\ Len(returned) = 2

\* C10: the list returned by expand starts with the query as given, holds
\* the query exactly once and holds no element twice, for every query and
\* every language argument.
C10_OriginalFirstOnce ==
  pc = "expanded" =>
    /\ Len(expanded_queries) >= 1
    /\ expanded_queries[1] = query
    /\ Cardinality({i \in 1..Len(expanded_queries) : expanded_queries[i] = query}) = 1
    /\ \A i, j \in 1..Len(expanded_queries) :
         i # j => expanded_queries[i] # expanded_queries[j]

\* an English query with glossary terms gave three variants
C10_Witness ==
  /\ pc = "expanded"
  /\ detected_lang = "en"
  /\ Len(expanded_queries) = 3
  /\ expanded_queries[1] = query
  /\ Len(expanded_queries[2]) > Len(query)

\* C17: aggregation issues one search-with-score call per element of the
\* expansion set, in the order of the set, the original query first: at
\* every point of the loop the calls made are the first elements of the set
\* in order, at the return there is one call per element, and the raw
\* aggregate is the concatenation, in that order, of the answers of the
\* calls that succeeded.
C17_OneCallPerVariantInOrder ==
  pc \in {"expanding", "returned"} =>
    /\ Len(calls) = idx - 1
    /\ Len(calls) <= Len(expanded_queries)
    /\ \A v \in 1..Len(calls) :
         /\ calls[v].fn = "similarity_search_with_score"
         /\ calls[v].query = expanded_queries[v]
    /\ expanded_queries[1] = query
    /\ results = AnswersInOrder(calls)
    /\ pc = "returned" => Len(calls) = Len(expanded_queries)

\* three variants were searched, the second search failed, and the
\* aggregate holds the answers of the first and the third, in that order
C17_Witness ==
  /\ pc = "returned"
  /\ Len(expanded_queries) = 3
  /\ Len(calls) = 3
  /\ ~calls[1].raised /\ calls[2].raised /\ ~calls[3].raised
  /\ calls[1].answer # <<>>
  /\ calls[3].answer # <<>>
  /\ calls[1].answer # calls[3].answer
  /\ results = calls[1].answer \o calls[3].answer

\* C20: adaptive k only increases the search count: for every requested
\* k >= 1 the count asked of each search is at least the requested k, and
\* at most 15 when the adaptation applies.
C20_SearchCountAtLeastRequested ==
  (pc \in AfterFirstSearch /\ original_k >= 1) =>
    \A v \in 1..Len(calls) :
      /\ calls[v].k >= original_k
      /\ (adaptive_k /\ query \in ThaiOrThaiRelated) => calls[v].k <= 15

----------------------------------------------------------------------------
(* Chunking, rag_pipeline.py:152-250                                       *)
(*                                                                         *)
(* The text of an extracted item is modelled by its length: a run of that  *)
(* many characters holding none of the splitter's separators.  The text a  *)
(* slide chunker joins is a list of runs with "\n" between them.  A text   *)
(* or a piece of one is [runs, from, to]: the characters from..to of the   *)
(* "\n"-join of the runs.  Of the metadata only the keys the chunkers read *)
(* are kept; a key that is not set is not in the record's domain.          *)

None == "None"

\* dict.get(key), None when the key is not set
Get(metadata, key) == IF key \in DOMAIN metadata THEN metadata[key] ELSE None

RECURSIVE SumLen(_)
SumLen(runs) == IF runs = <<>> THEN 0 ELSE runs[1] + SumLen(Tail(runs))

\* len("\n".join(runs))
JoinedLen(runs) == IF runs = <<>> THEN 0 ELSE SumLen(runs) + Len(runs) - 1

WholeText(runs) == [runs |-> runs, from |-> 1, to |-> JoinedLen(runs)]

Document(page_content, metadata) ==
  [page_content |-> page_content, metadata |-> metadata]

\* RecursiveCharacterTextSplitter on n characters: windows of chunk_size
\* characters, each starting chunk_size - chunk_overlap after the one
\* before, the last one ending with the text
RECURSIVE WindowsFrom(_, _, _, _)
WindowsFrom(start, n, chunk_size, chunk_overlap) ==
  IF start + chunk_size - 1 >= n THEN << <<start, n>> >>
  ELSE << <<start, start + chunk_size - 1>> >>
       \o WindowsFrom(start + chunk_size - chunk_overlap, n,
                      chunk_size, chunk_overlap)

\* splitter.create_documents([text], [metadata]): one document per window,
\* each with the metadata
create_documents(text, metadata, chunk_size, chunk_overlap) ==
  IF text.to < text.from THEN <<>>
  ELSE LET w == WindowsFrom(text.from, text.to, chunk_size, chunk_overlap)
       IN [i \in 1..Len(w) |->
             Document([runs |-> text.runs, from |-> w[i][1], to |-> w[i][2]],
                      metadata)]

\* splitter.split_documents(docs): every document split, in order
RECURSIVE split_documents(_, _, _)
split_documents(docs, chunk_size, chunk_overlap) ==
  IF docs = <<>> THEN <<>>
  ELSE create_documents(docs[1].page_content, docs[1].metadata,
                        chunk_size, chunk_overlap)
       \o split_documents(Tail(docs), chunk_size, chunk_overlap)

TextbookChunkSize == 1000
TextbookChunkOverlap == 200
SlideChunkSize == 1000
SlideChunkOverlap == 100
ThaiChunkSize == 800
ThaiChunkOverlap == 150

\* lines 197-204
_chunk_textbook_style(docs) ==
  split_documents(docs, TextbookChunkSize, TextbookChunkOverlap)

\* lines 243-250
_chunk_thai_style(docs) ==
  split_documents(docs, ThaiChunkSize, ThaiChunkOverlap)

\* line 221: the sort key, x.metadata.get('slide_num', 0)
SlideSortKey(d) ==
  IF "slide_num" \in DOMAIN d.metadata THEN d.metadata.slide_num ELSE 0

\* sorted() is stable: d goes after the documents with a key <= its key
RECURSIVE InsertBySlide(_, _)
InsertBySlide(d, sorted_docs) ==
  IF sorted_docs = <<>> THEN <<d>>
  ELSE LET n == Len(sorted_docs)
       IN IF SlideSortKey(sorted_docs[n]) <= SlideSortKey(d)
          THEN Append(sorted_docs, d)
          ELSE Append(InsertBySlide(d, SubSeq(sorted_docs, 1, n - 1)),
                      sorted_docs[n])

\* line 221
RECURSIVE SortedBySlide(_, _)
SortedBySlide(docs, sorted_docs) ==
  IF docs = <<>> THEN sorted_docs
  ELSE SortedBySlide(Tail(docs), InsertBySlide(docs[1], sorted_docs))

\* every document in one group, whatever its slide
GroupAllTogether(docs, groups) == IF docs = <<>> THEN <<>> ELSE <<docs>>

\* line 224: itertools.groupby on slide_num, a new group at each change of
\* the key
RECURSIVE GroupBySlide(_, _)
GroupBySlide(docs, groups) ==
  IF docs = <<>> THEN groups
  ELSE LET n == Len(groups)
       IN IF n > 0 /\ Get(groups[n][1].metadata, "slide_num")
                        = Get(docs[1].metadata, "slide_num")
          THEN GroupBySlide(Tail(docs),
                            [groups EXCEPT ![n] = Append(@, docs[1])])
          ELSE GroupBySlide(Tail(docs), Append(groups, <<docs[1]>>))

\* line 233: "\n".join of the page contents
RECURSIVE JoinedRuns(_)
JoinedRuns(items) ==
  IF items = <<>> THEN <<>>
  ELSE items[1].page_content.runs \o JoinedRuns(Tail(items))

\* lines 226-239: the chunks of one slide
ChunkSlideGroup(slide_items) ==
  LET IsText(d) == Get(d.metadata, "content_type") = "text"
      IsSpecial(d) ==
        Get(d.metadata, "content_type") \in {"table", "diagram", "image"}
      text_items == SelectSeq(slide_items, IsText)
      special_items == SelectSeq(slide_items, IsSpecial)
      text_chunks ==
        IF text_items # <<>>
        THEN create_documents(WholeText(JoinedRuns(text_items)),
                              text_items[1].metadata,
                              SlideChunkSize, SlideChunkOverlap)
        ELSE <<>>
  IN text_chunks \o special_items

RECURSIVE ChunkSlideGroups(_)
ChunkSlideGroups(groups) ==
  IF groups = <<>> THEN <<>>
  ELSE ChunkSlideGroup(groups[1]) \o ChunkSlideGroups(Tail(groups))

\* lines 206-241
_chunk_slide_style(docs) ==
  ChunkSlideGroups(GroupBySlide(SortedBySlide(docs, <<>>), <<>>))

\* lines 162-165: the four lists the documents are separated into
textbook_docs(docs) ==
  LET Test(d) == /\ "doc_type" \in DOMAIN d.metadata
                 /\ Get(d.metadata, "doc_type") = "textbook"
  IN SelectSeq(docs, Test)

slide_docs(docs) ==
  LET Test(d) == "slide_num" \in DOMAIN d.metadata
  IN SelectSeq(docs, Test)

thai_docs(docs) ==
  LET Test(d) == Get(d.metadata, "extraction_method") = "pytesseract_ocr"
  IN SelectSeq(docs, Test)

other_docs(docs) ==
  LET listed == textbook_docs(docs) \o slide_docs(docs) \o thai_docs(docs)
      Test(d) == \A i \in 1..Len(listed) : listed[i] # d
  IN SelectSeq(docs, Test)

\* lines 152-195
_chunk_all_content(docs) ==
  _chunk_textbook_style(textbook_docs(docs))
  \o _chunk_slide_style(slide_docs(docs))
  \o _chunk_thai_style(thai_docs(docs))
  \o _chunk_textbook_style(other_docs(docs))

----------------------------------------------------------------------------
(* Claims about expand and detect called alone (SpecExpand) *)

\* the translations, in the table's order, of the keys of a table that
\* satisfy Occurs
TranslationsOf(table, Occurs(_)) ==
  PassagesAt([i \in 1..Len(table) |-> table[i][2]],
             {i \in 1..Len(table) : Occurs(table[i][1])})

Thai_web_security ==
  <<3588, 3623, 3634, 3617, 3611, 3621, 3629, 3604, 3616, 3633, 3618, 3648,
    3623, 3655, 3610, 3652, 3595, 3605, 3660>>

\* C11: for an English query, with M the Thai translations of the glossary's
\* English terms that occur in the query as case-insensitive substrings, in
\* glossary order, expand returns [query] when M is empty and otherwise
\* [query, query + " " + M joined by spaces, M joined by spaces]; for
\* "web security" it returns exactly the three expected elements.
C11_ExpandEnglish ==
  (pc = "expanded" /\ detected_lang = "en") =>
    LET OccursIn(term) == Contains(Lower(term), Lower(query))
        M == TranslationsOf(THAI_SECURITY_KEYWORDS, OccursIn)
    IN /\ M = <<>> => expanded_queries = <<query>>
       /\ M # <<>> =>
            expanded_queries =
              <<query, query \o <<32>> \o JoinSpace(M), JoinSpace(M)>>
       /\ query = Q_web_security =>
            expanded_queries =
              <<Q_web_security,
                Q_web_security \o <<32>> \o Thai_web_security,
                Thai_web_security>>

\* "web security" was expanded as an English query
C11_Witness ==
  /\ pc = "expanded"
  /\ detected_lang = "en"
  /\ query = Q_web_security
  /\ Len(expanded_queries) = 3
  /\ expanded_queries[3] = Thai_web_security

\* C12: for a Thai query, with M the English translations of the Thai terms
\* of the Thai-to-English table that occur in the query as exact substrings,
\* in the table's iteration order, expand returns [query] when M is empty
\* and otherwise [query, query + " " + M joined by spaces]; never more than
\* two elements.
C12_ExpandThai ==
  (pc = "expanded" /\ detected_lang = "th") =>
    LET OccursIn(term) == Contains(term, query)
        M == TranslationsOf(ENGLISH_SECURITY_KEYWORDS, OccursIn)
    IN /\ M = <<>> => expanded_queries = <<query>>
       /\ M # <<>> =>
            expanded_queries = <<query, query \o <<32>> \o JoinSpace(M)>>
       /\ Len(expanded_queries) <= 2

\* a Thai query holding two glossary terms was expanded with both
\* translations
C12_Witness ==
  /\ pc = "expanded"
  /\ detected_lang = "th"
  /\ Len(expanded_queries) = 2
  /\ \E i, j \in 1..Len(ENGLISH_SECURITY_KEYWORDS) :
       /\ i < j
       /\ Contains(ENGLISH_SECURITY_KEYWORDS[i][1], query)
       /\ Contains(ENGLISH_SECURITY_KEYWORDS[j][1], query)
       /\ expanded_queries[2] =
            query \o <<32>> \o ENGLISH_SECURITY_KEYWORDS[i][2]
                  \o <<32>> \o ENGLISH_SECURITY_KEYWORDS[j][2]

\* positions of a text that hold alphanumeric characters
AlnumPositions(text) == {i \in 1..Len(text) : IsAlnum(text[i])}

\* positions of a text that hold characters of the Thai block
ThaiPositions(text) == {i \in 1..Len(text) : IsThaiChar(text[i])}

\* C13 as stated: detect returns 'th' exactly when the text has at least one
\* alphanumeric character and its alphanumeric characters of the Thai block
\* are strictly more than 0.3 of its alphanumeric characters.
C13_ThaiAmongAlnum ==
  pc = "detected" =>
    (detected_lang = "th" <=>
       /\ Cardinality(AlnumPositions(query)) >= 1
       /\ 10 * Cardinality(AlnumPositions(query) \cap ThaiPositions(query))
            > 3 * Cardinality(AlnumPositions(query)))

\* C13 (amended): detect returns 'th' or 'en' for every text; 'th' exactly
\* when the text has at least one alphanumeric character and its characters
\* of the Thai block, alphanumeric or not (vowel and tone marks count), are
\* strictly more than 0.3 of its alphanumeric characters; 'en' otherwise,
\* a text without alphanumeric characters included.
C13_ThaiBlockOverAlnum ==
  pc = "detected" =>
    /\ detected_lang \in {"th", "en"}
    /\ detected_lang = "th" <=>
         /\ Cardinality(AlnumPositions(query)) >= 1
         /\ 10 * Cardinality(ThaiPositions(query))
              > 3 * Cardinality(AlnumPositions(query))

\* a text whose Thai marks decide: with them counted it is Thai, among its
\* alphanumeric characters fewer than 0.3 are Thai
C13_Witness ==
  /\ pc = "detected"
  /\ detected_lang = "th"
  /\ ThaiPositions(query) \ AlnumPositions(query) # {}
  /\ 10 * Cardinality(AlnumPositions(query) \cap ThaiPositions(query))
       <= 3 * Cardinality(AlnumPositions(query))

\* C18: the glossary is bidirectional: for every English term e with Thai
\* translation t, a Thai query that contains t is expanded with e.
C18_ThaiQueryExpandedWithEveryTerm ==
  (pc = "expanded" /\ detected_lang = "th") =>
    \A i \in 1..Len(THAI_SECURITY_KEYWORDS) :
      LET e == THAI_SECURITY_KEYWORDS[i][1]
          t == THAI_SECURITY_KEYWORDS[i][2]
      IN Contains(t, query) =>
           /\ \E j \in 1..Len(ENGLISH_SECURITY_KEYWORDS) :
                ENGLISH_SECURITY_KEYWORDS[j] = <<t, e>>
           /\ Len(expanded_queries) = 2
           /\ Contains(<<32>> \o e,
                       SubSeq(expanded_queries[2], Len(query) + 1,
                              Len(expanded_queries[2])))

----------------------------------------------------------------------------
(* The chunkers called alone: _chunk_all_content and _chunk_slide_style on  *)
(* lists of at most MaxDocs documents, with every combination of the        *)
(* metadata keys the dispatch reads.                                        *)

MaxDocs == 2

\* lengths of page contents: between the Thai and the textbook window, and
\* above both
PageLengths == {900, 1200}

ContentTypeValues == {"text", "table", "diagram"}

\* a metadata record with the keys that are set; "absent" and 0 stand for
\* a key that is not set
MetadataOf(content_type, doc_type, slide_num, extraction_method) ==
  ("content_type" :> content_type)
  @@ (IF doc_type = "absent" THEN <<>> ELSE "doc_type" :> doc_type)
  @@ (IF slide_num = 0 THEN <<>> ELSE "slide_num" :> slide_num)
  @@ (IF extraction_method = "absent" THEN <<>>
      ELSE "extraction_method" :> extraction_method)

\* documents for _chunk_all_content: every combination of the three keys
\* being set or not
AllDocuments ==
  {Document(WholeText(<<n>>), MetadataOf(ct, dt, sn, em)) :
     n \in PageLengths, ct \in ContentTypeValues,
     dt \in {"absent", "textbook"}, sn \in {0, 1},
     em \in {"absent", "pytesseract_ocr", "unstructured_hires"}}

\* documents for _chunk_slide_style: items of two slides
SlideDocuments ==
  {Document(WholeText(<<n>>), MetadataOf(ct, "absent", sn, "absent")) :
     n \in PageLengths, ct \in ContentTypeValues, sn \in {1, 2}}

RECURSIVE ListsOf(_, _)
ListsOf(S, n) ==
  IF n = 0 THEN {<<>>}
  ELSE LET shorter == ListsOf(S, n - 1)
       IN shorter \cup {Append(l, d) : l \in shorter, d \in S}

InitChunk ==
  /\ pc = "chunk_idle"
  /\ RetrievalIdle
  /\ IngestIdle

\* _chunk_all_content(docs) is called and returns
ChunkAllCall(docs) ==
  /\ pc = "chunk_idle"
  /\ pc' = "chunked_all"
  /\ langchain_docs' = docs
  /\ chunks' = _chunk_all_content(docs)
  /\ UNCHANGED <<textbook_path, slides_path, thai_pdf_path, all_contents,
                 extractor_calls, store_calls>>
  /\ UNCHANGED retrieval_vars

\* _chunk_slide_style(docs) is called, as line 176 does with documents that
\* have a slide_num, and returns
ChunkSlideCall(docs) ==
  /\ pc = "chunk_idle"
  /\ pc' = "chunked_slide"
  /\ langchain_docs' = docs
  /\ chunks' = _chunk_slide_style(docs)
  /\ UNCHANGED <<textbook_path, slides_path, thai_pdf_path, all_contents,
                 extractor_calls, store_calls>>
  /\ UNCHANGED retrieval_vars

ChunkAllInputs == ListsOf(AllDocuments, MaxDocs)

ChunkSlideInputs == ListsOf(SlideDocuments, MaxDocs)

NextChunk ==
  \/ pc = "chunk_idle" /\ \E docs \in ChunkAllInputs : ChunkAllCall(docs)
  \/ pc = "chunk_idle" /\ \E docs \in ChunkSlideInputs : ChunkSlideCall(docs)

SpecChunk == InitChunk /\ [][NextChunk]_vars

\* how many times x is in the list l
Occurrences(l, x) == Cardinality({i \in 1..Len(l) : l[i] = x})

\* C14: in the output of the slide chunker every text chunk is built only
\* from the TEXT items of one slide (its text is a piece of the join of
\* exactly those items' texts, in input order, and it carries that slide's
\* number), and every TABLE or DIAGRAM item of the input is in the output
\* as often as in the input, text and metadata unchanged.
C14_SlideChunksFromOneSlide ==
  pc = "chunked_slide" =>
    /\ \A i \in 1..Len(chunks) :
         chunks[i].metadata.content_type = "text" =>
           LET N == chunks[i].metadata.slide_num
               IsTextOfN(d) == /\ d.metadata.content_type = "text"
                               /\ d.metadata.slide_num = N
               contributing == SelectSeq(langchain_docs, IsTextOfN)
           IN /\ contributing # <<>>
              /\ chunks[i].page_content.runs = JoinedRuns(contributing)
              /\ chunks[i].metadata = contributing[1].metadata
              /\ 1 <= chunks[i].page_content.from
              /\ chunks[i].page_content.from <= chunks[i].page_content.to
              /\ chunks[i].page_content.to
                   <= JoinedLen(chunks[i].page_content.runs)
    /\ \A i \in 1..Len(langchain_docs) :
         langchain_docs[i].metadata.content_type \in {"table", "diagram"} =>
           Occurrences(chunks, langchain_docs[i])
             = Occurrences(langchain_docs, langchain_docs[i])

\* the slide chunker was given a TABLE of slide 2, then a TEXT item of
\* slide 1 longer than the window: slide 1 comes first, its text in two
\* chunks, and the table follows as it was given
C14_Witness ==
  /\ pc = "chunked_slide"
  /\ Len(langchain_docs) = 2
  /\ langchain_docs[1].metadata.content_type = "table"
  /\ langchain_docs[1].metadata.slide_num = 2
  /\ langchain_docs[2].metadata.content_type = "text"
  /\ langchain_docs[2].metadata.slide_num = 1
  /\ Len(chunks) = 3
  /\ chunks[1].metadata.slide_num = 1
  /\ chunks[2].metadata.slide_num = 1
  /\ chunks[1].page_content.to < chunks[2].page_content.to
  /\ chunks[3] = langchain_docs[1]

\* the documents handed to the four chunker calls of lines 168-193, one
\* after the other
HandledDocs(docs) ==
  textbook_docs(docs) \o slide_docs(docs) \o thai_docs(docs)
  \o other_docs(docs)

----------------------------------------------------------------------------
(* process_all_documents, rag_pipeline.py:41-81, with the items the three   *)
(* extractors build (extractors/textbook.py, slide_deck.py, thai_pdf.py).   *)
(* Each extractor returns at most MaxItems items.                           *)

MaxItems == 1

\* the members of ContentType and their values
ContentTypes == {"TEXT", "TABLE", "DIAGRAM"}

ContentTypeValue(content_type) ==
  CASE content_type = "TEXT" -> "text"
    [] content_type = "TABLE" -> "table"
    [] content_type = "DIAGRAM" -> "diagram"

ExtractedContent(content_type, content, metadata) ==
  [content_type |-> content_type, content |-> content, metadata |-> metadata]

\* textbook.py:72-145: the item metadata holds source, doc_id, page,
\* original_category and element_id, none of them a key the chunkers read
TextbookItems ==
  {ExtractedContent(ct, n, <<>>) : ct \in ContentTypes, n \in PageLengths}

\* slide_deck.py:96-168: every item carries slide_num (lines 112, 162)
SlideItems ==
  {ExtractedContent(ct, n, "slide_num" :> 1) :
     ct \in ContentTypes, n \in PageLengths}

\* len("[...]"), the content thai_pdf.py:182 gives every diagram
ThaiDiagramLen == 15

\* thai_pdf.py:127-185: OCR page texts are tagged pytesseract_ocr (line
\* 147), tables and diagrams unstructured_hires (line 157)
ThaiItems ==
  {ExtractedContent("TEXT", n, "extraction_method" :> "pytesseract_ocr") :
     n \in PageLengths}
  \cup {ExtractedContent("TABLE", n,
                         "extraction_method" :> "unstructured_hires") :
          n \in PageLengths}
  \cup {ExtractedContent("DIAGRAM", ThaiDiagramLen,
                         "extraction_method" :> "unstructured_hires")}

TextbookOutputs == ListsOf(TextbookItems, MaxItems)

SlideOutputs == ListsOf(SlideItems, MaxItems)

ThaiOutputs == ListsOf(ThaiItems, MaxItems)

\* a path argument: not given (the default), empty, or a file
Paths == {None, "", "doc.pdf"}

\* the test `if path:`
Truthy(path) == path # None /\ path # ""

\* lines 121-150: one Document per item, content_type added to its metadata
_to_langchain_docs(contents) ==
  [i \in 1..Len(contents) |->
     Document(WholeText(<<contents[i].content>>),
              ("content_type" :> ContentTypeValue(contents[i].content_type))
              @@ contents[i].metadata)]

ExtractorCall(extractor, raised, content) ==
  [extractor |-> extractor, raised |-> raised, content |-> content]

InitPipeline ==
  /\ pc = "ingest_idle"
  /\ RetrievalIdle
  /\ IngestIdle

\* lines 41-62: process_all_documents is called
ProcessAll(tp, sp, thp) ==
  /\ pc = "ingest_idle"
  /\ pc' = "extract_textbook"
  /\ textbook_path' = tp
  /\ slides_path' = sp
  /\ thai_pdf_path' = thp
  /\ UNCHANGED <<all_contents, langchain_docs, chunks, extractor_calls,
                 store_calls>>
  /\ UNCHANGED retrieval_vars

\* one extractor step of lines 98-116: skipped without a path, else the
\* extractor is called and its items are added
ExtractStep(here, next, path, extractor, content) ==
  /\ pc = here
  /\ pc' = next
  /\ IF Truthy(path)
     THEN /\ extractor_calls' =
               Append(extractor_calls, ExtractorCall(extractor, FALSE, content))
          /\ all_contents' = all_contents \o content
     ELSE /\ content = <<>>
          /\ UNCHANGED <<extractor_calls, all_contents>>
  /\ UNCHANGED <<textbook_path, slides_path, thai_pdf_path, langchain_docs,
                 chunks, store_calls>>
  /\ UNCHANGED retrieval_vars

\* an extractor raises and the failure is swallowed: the next step runs
ExtractStepFailsCaught(here, next, path, extractor) ==
  /\ pc = here
  /\ Truthy(path)
  /\ pc' = next
  /\ extractor_calls' =
       Append(extractor_calls, ExtractorCall(extractor, TRUE, <<>>))
  /\ UNCHANGED <<textbook_path, slides_path, thai_pdf_path, all_contents,
                 langchain_docs, chunks, store_calls>>
  /\ UNCHANGED retrieval_vars

\* an extractor raises: nothing catches it (lines 60-62, 98-116), the call
\* ends
ExtractStepFails(here, next, path, extractor) ==
  /\ pc = here
  /\ Truthy(path)
  /\ pc' = "raised_extract"
  /\ extractor_calls' =
       Append(extractor_calls, ExtractorCall(extractor, TRUE, <<>>))
  /\ UNCHANGED <<textbook_path, slides_path, thai_pdf_path, all_contents,
                 langchain_docs, chunks, store_calls>>
  /\ UNCHANGED retrieval_vars

\* lines 98-102
ExtractTextbook(content) ==
  ExtractStep("extract_textbook", "extract_slides", textbook_path,
              "extract_textbook", content)

ExtractTextbookFails ==
  ExtractStepFails("extract_textbook", "extract_slides", textbook_path,
                   "extract_textbook")

\* lines 105-109
ExtractSlides(content) ==
  ExtractStep("extract_slides", "extract_thai", slides_path,
              "extract_slide_deck", content)

ExtractSlidesFails ==
  ExtractStepFails("extract_slides", "extract_thai", slides_path,
                   "extract_slide_deck")

\* lines 112-116
ExtractThai(content) ==
  ExtractStep("extract_thai", "convert", thai_pdf_path,
              "extract_thai_pdf", content)

ExtractThaiFails ==
  ExtractStepFails("extract_thai", "convert", thai_pdf_path,
                   "extract_thai_pdf")

\* line 65
ToLangchainDocs ==
  /\ pc = "convert"
  /\ pc' = "chunk"
  /\ langchain_docs' = _to_langchain_docs(all_contents)
  /\ UNCHANGED <<textbook_path, slides_path, thai_pdf_path, all_contents,
                 chunks, extractor_calls, store_calls>>
  /\ UNCHANGED retrieval_vars

\* line 68
ChunkAll ==
  /\ pc = "chunk"
  /\ pc' = "store"
  /\ chunks' = _chunk_all_content(langchain_docs)
  /\ UNCHANGED <<textbook_path, slides_path, thai_pdf_path, all_contents,
                 langchain_docs, extractor_calls, store_calls>>
  /\ UNCHANGED retrieval_vars

\* line 68 raises (the splitter library fails): nothing catches it
ChunkAllFails ==
  /\ pc = "chunk"
  /\ pc' = "raised_chunk"
  /\ UNCHANGED ingest_vars
  /\ UNCHANGED retrieval_vars

\* lines 71, 252-266: the one call to Chroma.from_documents; it returns
\* or raises, and either way process_all_documents ends
CreateVectorstore(raised) ==
  /\ pc = "store"
  /\ pc' = IF raised THEN "raised_store" ELSE "ingest_done"
  /\ store_calls' = Append(store_calls, [documents |-> chunks, raised |-> raised])
  /\ UNCHANGED <<textbook_path, slides_path, thai_pdf_path, all_contents,
                 langchain_docs, chunks, extractor_calls>>
  /\ UNCHANGED retrieval_vars

NextPipeline ==
  \/ \E tp \in Paths, sp \in Paths, thp \in Paths : ProcessAll(tp, sp, thp)
  \/ pc = "extract_textbook" /\ \E c \in TextbookOutputs : ExtractTextbook(c)
  \/ ExtractTextbookFails
  \/ pc = "extract_slides" /\ \E c \in SlideOutputs : ExtractSlides(c)
  \/ ExtractSlidesFails
  \/ pc = "extract_thai" /\ \E c \in ThaiOutputs : ExtractThai(c)
  \/ ExtractThaiFails
  \/ ToLangchainDocs
  \/ ChunkAll
  \/ ChunkAllFails
  \/ \E raised \in BOOLEAN : CreateVectorstore(raised)

SpecPipeline == InitPipeline /\ [][NextPipeline]_vars

----------------------------------------------------------------------------
(* Claims about process_all_documents (SpecPipeline) *)

\* the documents made from the items an extractor returned
RECURSIVE ContentFrom(_, _)
ContentFrom(cs, extractor) ==
  IF cs = <<>> THEN <<>>
  ELSE (IF cs[1].extractor = extractor THEN cs[1].content ELSE <<>>)
       \o ContentFrom(Tail(cs), extractor)

DocumentsFrom(extractor) ==
  _to_langchain_docs(ContentFrom(extractor_calls, extractor))

\* the chunks that carry the metadata of one of the documents
ChunksWithMetadataOf(docs) ==
  LET Test(c) == \E i \in 1..Len(docs) : c.metadata = docs[i].metadata
  IN SelectSeq(chunks, Test)

\* the chunks made from the text of the document d alone
ChunksOfDocument(d) ==
  {j \in 1..Len(chunks) :
     /\ chunks[j].metadata = d.metadata
     /\ chunks[j].page_content.runs = d.page_content.runs}

Chunked == {"store", "ingest_done", "raised_store"}

\* C15: whatever the strategy an item is chunked with, a TABLE or DIAGRAM
\* item yields exactly one chunk and its text is the item's whole text.
C15_TablesAndDiagramsAtomic ==
  pc \in Chunked =>
    \A i \in 1..Len(all_contents) :
      LET d == langchain_docs[i]
      IN all_contents[i].content_type \in {"TABLE", "DIAGRAM"} =>
           /\ Cardinality(ChunksOfDocument(d))
                = Occurrences(langchain_docs, d)
           /\ \A j \in ChunksOfDocument(d) :
                chunks[j].page_content = d.page_content

\* C16: the chunks of the items of the Thai extractor are those of the
\* 800 / 150 splitter, the chunks of the items of the slide extractor are
\* those of the slide chunker, and the chunks of the items of the textbook
\* extractor, which carry no source key, are those of the 1000 / 200
\* splitter.
C16_DispatchByExtractor ==
  pc \in Chunked =>
    /\ Range(ChunksWithMetadataOf(DocumentsFrom("extract_thai_pdf")))
         = Range(split_documents(DocumentsFrom("extract_thai_pdf"), 800, 150))
    /\ Range(ChunksWithMetadataOf(DocumentsFrom("extract_slide_deck")))
         = Range(_chunk_slide_style(DocumentsFrom("extract_slide_deck")))
    /\ Range(ChunksWithMetadataOf(DocumentsFrom("extract_textbook")))
         = Range(split_documents(DocumentsFrom("extract_textbook"), 1000, 200))

\* the extractors a run calls, in the order of lines 98-116
ExtractorsDue ==
  (IF Truthy(textbook_path) THEN <<"extract_textbook">> ELSE <<>>)
  \o (IF Truthy(slides_path) THEN <<"extract_slide_deck">> ELSE <<>>)
  \o (IF Truthy(thai_pdf_path) THEN <<"extract_thai_pdf">> ELSE <<>>)

Ended == {"ingest_done", "raised_extract", "raised_chunk", "raised_store"}

\* what C19 says of every state
C19_State ==
  /\ Len(extractor_calls) <= Len(ExtractorsDue)
  /\ \A i \in 1..Len(extractor_calls) :
       extractor_calls[i].extractor = ExtractorsDue[i]
  /\ pc \in {"convert", "chunk", "store", "ingest_done", "raised_chunk",
             "raised_store"}
       => Len(extractor_calls) = Len(ExtractorsDue)
  /\ Len(store_calls) <= 1
  /\ pc \in {"raised_extract", "raised_chunk"} => store_calls = <<>>
  /\ store_calls # <<>> =>
       /\ pc \in {"ingest_done", "raised_store"}
       /\ \A i \in 1..Len(extractor_calls) : ~extractor_calls[i].raised
       /\ store_calls[1].documents = chunks
  /\ pc = "ingest_done" => Len(store_calls) = 1

\* C19: process_all_documents is one-shot: the extractors are called in the
\* order textbook, slides, Thai PDF, each at most once and only when its
\* path is given; the store is called at most once, after conversion and
\* chunking, with the chunks; once an extractor or the chunking has failed,
\* or the store call has been made, no further step is taken, so nothing
\* is tried again and no store call follows a failure.
C19_OneShotPipeline ==
  /\ []C19_State
  /\ [][pc \notin Ended]_vars

\* a run without a slides path ended: the textbook and then the Thai PDF
\* were extracted, the slide extractor was not called, the chunks were
\* stored by one call
C19_Witness ==
  /\ pc = "ingest_done"
  /\ Truthy(textbook_path) /\ ~Truthy(slides_path) /\ Truthy(thai_pdf_path)
  /\ Len(extractor_calls) = 2
  /\ extractor_calls[1].extractor = "extract_textbook"
  /\ extractor_calls[2].extractor = "extract_thai_pdf"
  /\ chunks # <<>>
  /\ Len(store_calls) = 1
  /\ store_calls[1].documents = chunks

====
